---------------------------- MODULE Spec2Model ----------------------------
(***************************************************************************)
(* A model of the linear arena, the bounded path builder and the           *)
(* arena-backed directory enumeration of memory_allocation_experiment      *)
(* (src/main.cpp and its restyled twin src/main.cc).                       *)
(*                                                                         *)
(* size_t is modelled as an unsigned word of WordBits bits: every size_t   *)
(* addition of the source is taken modulo WordMod.  The page size, the     *)
(* commit chunk and the alignment granularity are the source's numbers.    *)
(***************************************************************************)
EXTENDS Integers, Sequences, FiniteSets, TLC

VARIABLES
    variant,    \* "cpp" (src/main.cpp) or "cc" (src/main.cc)
    arena,      \* the LinearArena: [base, used, committed, reserved]
    last,       \* what the latest alloc call did and returned
    allocs,     \* history: the blocks handed out by successful alloc calls
    pb,         \* a PathBuilder: [buffer, used]
    pbStatus,   \* "ok", "exit" (exit(EXIT_FAILURE)) or "crash"
    pbOob,      \* history: a byte was written at or beyond buffer[MAX_PATH]
    pbAppended, \* history: the texts pushed since the last reset, concatenated
    pbPushes,   \* history: the number of pushes since the last reset
    pbCalls,    \* history: the number of calls made on the builder
    tree,       \* the host's directory tree
    stack,      \* the activations of get_file_list_custom, innermost last
    heap,       \* the FileName nodes written into the arena, by address
                \* (history: entry, the directory and entry a node was made
                \* for, and req, the size asked of alloc for it)
    first,      \* main's pointer to the sentinel node
    enumPc,     \* "start", "run", "done", "exit", "crash" or "hang" (a tail
                \* walk that never ends)
    orders,     \* history: the order in which the host listed each directory
    openFailed, \* history: a FindFirstFileExA call failed
    enumOob,    \* history: a push wrote past the end of a pattern buffer
    nullStore   \* history: a store was made through a NULL result of alloc

arenaVars == <<variant, arena, last, allocs>>
pathVars == <<pb, pbStatus, pbOob, pbAppended, pbPushes, pbCalls>>
enumVars == <<tree, stack, heap, first, enumPc, orders, openFailed, enumOob,
              nullStore>>
vars == <<arenaVars, pathVars, enumVars>>

---------------------------------------------------------------------------
(* Bounds of the model *)

\* width of size_t in bits (the arithmetic of the source is modulo 2^WordBits)
WordBits == 21

\* number of alloc calls followed in one run
MaxAllocs == 3

\* number of reset_path and push_path calls followed on one builder
MaxCalls == 4

\* depth of the recursion of get_file_list_custom followed in one run
MaxDepth == 4

WordMod == 2 ^ WordBits

---------------------------------------------------------------------------
(* Numbers of the source *)

\* sizeof(void *)
SizeofPtr == 8

\* "Assuming page size is 4 KB."
PageSize == 4096

\* the commit chunk, in pages: 100 * 4096
CommitPages == 100

\* the address VirtualAlloc(MEM_RESERVE) returns when it succeeds: a multiple
\* of the 64 KB allocation granularity; 0 is NULL
ReservedBase == 16 * PageSize

NULL == 0

\* MAX_PATH of <windows.h> in main.cpp, MAX_STRING_LENGTH in main.cc
MAX_PATH == 260

\* the terminator '\0'
NUL == "NUL"

\* 2 * sizeof(void *) in main.cpp, sizeof(void *) in main.cc
Granularity == IF variant = "cpp" THEN 2 * SizeofPtr ELSE SizeofPtr

---------------------------------------------------------------------------
(* The macros *)

CLAMP_TOP(val, max) == IF val > max THEN max ELSE val

MAX(a, b) == IF a > b THEN a ELSE b

\* a mutant of NEXT_MULTIPLE: no rounding at all
NEXT_MULTIPLE_NoRounding(num, b) == num % WordMod

\* (((num) + ((base) - 1)) & ~((base) - 1)) on size_t, base a power of two:
\* the sum wraps modulo 2^WordBits, the mask clears the low bits
NEXT_MULTIPLE(num, b) ==
    LET sum == (num + (b - 1)) % WordMod
    IN  sum - (sum % b)

---------------------------------------------------------------------------
(* The path builder.  buffer[i] of the source is buffer[i + 1] here. *)

\* the text of n characters c
Fill(c, n) == [i \in 1..n |-> c]

\* The memory a push can reach: buffer[0 .. MAX_PATH - 1] and the bytes that
\* follow it, up to the farthest byte three pushes can write (each text is
\* shorter than MAX_PATH - 1, or the push ends the process).
BuilderMem == 2 * MAX_PATH

\* PathBuilder pattern = {};
EmptyBuilder == [buffer |-> Fill(NUL, BuilderMem), used |-> 0]

\* reset_path; `pattern.used = 0` where the source writes it inline
reset_path(b) == [b EXCEPT !.used = 0]

\* offsetof(PathBuilder, used): buffer[MAX_PATH] and the padding up to the
\* alignment of size_t
UsedOffset == NEXT_MULTIPLE(MAX_PATH, SizeofPtr)

\* what used reads as once text bytes were stored over it: some word far
\* larger than the buffer
TextWord == WordMod - MAX_PATH

\* How a build resolves a write past the end of buffer (undefined behaviour).
\* "intact": the bytes land in the memory after buffer and used is not
\* affected (it is held in a register).  "clobbered": the bytes at and after
\* UsedOffset land on the used field, which is read back before
\* `used += length`: its low byte is 0 when only the terminator reached it,
\* and it is a word of text bytes when the text reached it.  "crash": the
\* process dies.
UbOutcomes == {"intact", "clobbered", "crash"}

\* push_path / string_builder_push: only the length of str is tested, the
\* bytes go to buffer[used .. used + length], the last one the terminator
push_path(b, str, ub) ==
    LET length == Len(str)
        end == b.used + length
        written == [i \in 1..BuilderMem |->
                       IF i - 1 >= b.used /\ i - 1 < end
                       THEN str[i - b.used]
                       ELSE IF i - 1 = end THEN NUL ELSE b.buffer[i]]
    IN  IF length + 1 >= MAX_PATH
        THEN [pb |-> b, status |-> "exit", oob |-> FALSE]
        ELSE IF end < MAX_PATH
        THEN [pb |-> [buffer |-> written, used |-> end],
              status |-> "ok", oob |-> FALSE]
        ELSE CASE ub = "crash" ->
                    [pb |-> [buffer |-> written, used |-> b.used],
                     status |-> "crash", oob |-> TRUE]
               [] ub = "clobbered" /\ end = UsedOffset ->
                    [pb |-> [buffer |-> written,
                             used |-> (b.used - (b.used % 256)) + length],
                     status |-> "ok", oob |-> TRUE]
               [] ub = "clobbered" /\ end > UsedOffset ->
                    [pb |-> [buffer |-> written,
                             used |-> (TextWord + length) % WordMod],
                     status |-> "ok", oob |-> TRUE]
               [] OTHER ->
                    [pb |-> [buffer |-> written, used |-> end % WordMod],
                     status |-> "ok", oob |-> TRUE]

---------------------------------------------------------------------------
(* The linear arena *)

\* make / linear_arena_create: the result of the reservation is not checked
make(reserve_size, reserveOk) ==
    [base      |-> IF reserveOk THEN ReservedBase ELSE NULL,
     used      |-> 0,
     committed |-> 0,
     reserved  |-> reserve_size]

\* the reservations the host can grant: VirtualAlloc(MEM_RESERVE) fails for
\* a size of 0 and for a size beyond the user half of the address space
HostGrants(reserve_size) ==
    reserve_size > 0 /\ reserve_size <= 2 ^ (WordBits - 1)

\* the record of one alloc call
AllocResult(a, size, aligned, mem, outcome, commit, before) ==
    [arena |-> a, size |-> size, aligned |-> aligned, mem |-> mem,
     outcome |-> outcome, commit |-> commit, usedBefore |-> before.used,
     committedBefore |-> before.committed]

\* a mutant of alloc: the test `used >= reserved` is dropped
alloc_NoReservedTest(a, size, commitOk) ==
    LET aligned_size == NEXT_MULTIPLE(size, Granularity)
        grow == (a.used + aligned_size) % WordMod > a.committed
        page_aligned_size == NEXT_MULTIPLE(aligned_size, PageSize)
        commit_size ==
            CLAMP_TOP((a.committed
                         + MAX(page_aligned_size, (CommitPages * PageSize) % WordMod))
                      % WordMod, a.reserved)
    IN  IF grow /\ ~(commitOk /\ commit_size > 0)
        THEN AllocResult(a, size, aligned_size, NULL, "CommitFailed", "failed", a)
        ELSE AllocResult(
                 [a EXCEPT !.committed = IF grow THEN commit_size ELSE @,
                           !.used = (a.used + aligned_size) % WordMod],
                 size, aligned_size, a.base + a.used, "ok",
                 IF grow THEN "ok" ELSE "none", a)

\* a mutant of alloc: the exact fit is refused (used + aligned_size >= reserved)
alloc_RefuseExactFit(a, size, commitOk) ==
    LET aligned_size == NEXT_MULTIPLE(size, Granularity)
    IN  IF a.used >= a.reserved \/ a.used + aligned_size >= a.reserved
        THEN AllocResult(a, size, aligned_size, NULL, "OutOfReservedSpace", "none", a)
        ELSE alloc_NoReservedTest(a, size, commitOk)

\* a mutant of alloc: committed is stored before the answer of the host is
\* tested
alloc_CommitBeforeTest(a, size, commitOk) ==
    IF a.used >= a.reserved
    THEN AllocResult(a, size, 0, NULL, "OutOfReservedSpace", "none", a)
    ELSE LET r == alloc_NoReservedTest(a, size, commitOk)
             granted == alloc_NoReservedTest(a, size, TRUE)
         IN  IF r.outcome = "CommitFailed" /\ granted.outcome = "ok"
             THEN [r EXCEPT !.arena.committed = granted.arena.committed]
             ELSE r

\* alloc / linear_arena_push_size.  commitOk is the host's answer to
\* VirtualAlloc(base, commit_size, MEM_COMMIT), asked only when the arena
\* grows; the host refuses a commit of 0 bytes.
alloc(a, size, commitOk) ==
    IF a.used >= a.reserved
    THEN AllocResult(a, size, 0, NULL, "OutOfReservedSpace", "none", a)
    ELSE
    LET aligned_size == NEXT_MULTIPLE(size, Granularity)
        grow == (a.used + aligned_size) % WordMod > a.committed
        page_aligned_size == NEXT_MULTIPLE(aligned_size, PageSize)
        commit_size ==
            CLAMP_TOP((a.committed
                         + MAX(page_aligned_size, (CommitPages * PageSize) % WordMod))
                      % WordMod, a.reserved)
    IN  IF grow /\ ~(commitOk /\ commit_size > 0)
        THEN AllocResult(a, size, aligned_size, NULL, "CommitFailed", "failed", a)
        ELSE AllocResult(
                 [a EXCEPT !.committed = IF grow THEN commit_size ELSE @,
                           !.used = (a.used + aligned_size) % WordMod],
                 size, aligned_size, a.base + a.used, "ok",
                 IF grow THEN "ok" ELSE "none", a)

---------------------------------------------------------------------------
(* The arena driven by an arbitrary caller *)

\* reserve sizes a caller passes to make
ReserveSizes == {0, 64, PageSize, 2 ^ (WordBits - 1), WordMod - PageSize}

\* request sizes (> 0): small ones, a page, the commit chunk, what is left of
\* the reservation, and the largest words
RequestSizes(a) ==
    {1, SizeofPtr, 2 * SizeofPtr + 1, PageSize, CommitPages * PageSize,
     WordMod - PageSize, WordMod - 2 * SizeofPtr, WordMod - 1}
    \cup (IF a.reserved > a.used THEN {a.reserved - a.used} ELSE {})

NoCall ==
    [size |-> 0, aligned |-> 0, mem |-> NULL, outcome |-> "none",
     commit |-> "none", usedBefore |-> 0, committedBefore |-> 0]

\* the builder before any use
PathIdle ==
    /\ pb = EmptyBuilder
    /\ pbStatus = "ok"
    /\ pbOob = FALSE
    /\ pbAppended = <<>>
    /\ pbPushes = 0
    /\ pbCalls = 0

\* no enumeration under way
EnumIdle ==
    /\ tree = [dirs |-> {}, files |-> {}, denied |-> {}]
    /\ stack = <<>>
    /\ heap = <<>>
    /\ first = NULL
    /\ enumPc = "idle"
    /\ orders = <<>>
    /\ openFailed = FALSE
    /\ enumOob = FALSE
    /\ nullStore = FALSE

Init ==
    /\ variant \in {"cpp", "cc"}
    /\ \E reserve_size \in ReserveSizes, reserveOk \in BOOLEAN :
           /\ reserveOk => HostGrants(reserve_size)
           /\ arena = make(reserve_size, reserveOk)
    /\ last = NoCall
    /\ allocs = <<>>
    /\ PathIdle
    /\ EnumIdle

CallRecord(r) ==
    [size |-> r.size, aligned |-> r.aligned, mem |-> r.mem, outcome |-> r.outcome,
     commit |-> r.commit, usedBefore |-> r.usedBefore,
     committedBefore |-> r.committedBefore]

\* one call alloc(&arena, size)
Allocate ==
    /\ Len(allocs) < MaxAllocs
    /\ \E size \in RequestSizes(arena), commitOk \in BOOLEAN :
         LET r == alloc(arena, size, commitOk)
         IN  /\ arena' = r.arena
             /\ last' = CallRecord(r)
             /\ allocs' = IF r.outcome = "ok"
                          THEN Append(allocs, [mem |-> r.mem, size |-> r.aligned])
                          ELSE allocs
    /\ UNCHANGED <<variant, pathVars, enumVars>>

Next == Allocate

Spec == Init /\ [][Next]_vars

---------------------------------------------------------------------------
(* The path builder driven by an arbitrary caller *)

\* texts a caller pushes: the spec's "ab" and "cd", the empty text, the
\* separator, and long texts up to the longest the test admits and beyond
Texts ==
    {<<"a", "b">>, <<"c", "d">>, <<>>, <<"\\">>,
     Fill("e", 64), Fill("f", 200),
     Fill("g", MAX_PATH - 2), Fill("h", MAX_PATH - 1)}

InitPath ==
    /\ variant = "cpp"
    /\ arena = make(0, FALSE)
    /\ last = NoCall
    /\ allocs = <<>>
    /\ PathIdle
    /\ EnumIdle

\* reset_path(&pattern)
ResetPath ==
    /\ pbStatus = "ok"
    /\ pbCalls < MaxCalls
    /\ pb' = reset_path(pb)
    /\ pbAppended' = <<>>
    /\ pbPushes' = 0
    /\ pbCalls' = pbCalls + 1
    /\ UNCHANGED <<pbStatus, pbOob, arenaVars, enumVars>>

\* push_path(&pattern, str)
PushPath ==
    /\ pbStatus = "ok"
    /\ pbCalls < MaxCalls
    /\ \E str \in Texts, ub \in UbOutcomes :
         \E r \in {push_path(pb, str, ub)} :
             /\ pb' = r.pb
             /\ pbStatus' = r.status
             /\ pbOob' = (pbOob \/ r.oob)
             /\ pbAppended' = IF r.status = "ok" THEN pbAppended \o str
                              ELSE pbAppended
             /\ pbPushes' = pbPushes + 1
             /\ pbCalls' = pbCalls + 1
    /\ UNCHANGED <<arenaVars, enumVars>>

NextPath == ResetPath \/ PushPath

SpecPath == InitPath /\ [][NextPath]_vars

---------------------------------------------------------------------------
(* The host's file system.  A name is a sequence of characters; a directory
   or file is the sequence of names leading to it from the start directory
   "."; a tree is [dirs, files, denied], denied the directories the host
   refuses to open. *)

Dot == <<".">>
DotDot == <<".", ".">>
Sep == <<"\\">>
MatchAll == <<"\\", "*">>

\* root + "\" + name
JoinPath(root, name) == root \o Sep \o name

RECURSIVE DirString(_)
\* the path string of directory d as the enumeration builds it
DirString(d) ==
    IF d = <<>> THEN Dot
    ELSE JoinPath(DirString(SubSeq(d, 1, Len(d) - 1)), d[Len(d)])

\* what the host lists in directory d: its children and the two
\* pseudo-entries, each a WIN32_FIND_DATAA reduced to (cFileName, directory bit)
Entries(t, d) ==
    {[name |-> q[Len(q)], isDir |-> q \in t.dirs] :
        q \in {c \in t.dirs \cup t.files :
                  Len(c) = Len(d) + 1 /\ SubSeq(c, 1, Len(d)) = d}}
    \cup {[name |-> Dot, isDir |-> TRUE], [name |-> DotDot, isDir |-> TRUE]}

\* the orders in which the host may list the set S
Orders(S) ==
    {o \in [1..Cardinality(S) -> S] :
        \A i, j \in 1..Cardinality(S) : i # j => o[i] # o[j]}

\* the directories a pattern string names (none, or one)
Resolve(t, pat) ==
    {d \in t.dirs \cup {<<>>} : DirString(d) \o MatchAll = pat}

\* What find_data may hold after a failed FindFirstFileExA: the struct is
\* never written, so its bytes are whatever the stack held: a pseudo-entry,
\* a file name, or a directory name (a long one: every level of the
\* recursion it causes makes the path longer by this name)
StaleFindData ==
    {[name |-> Dot, isDir |-> TRUE],
     [name |-> <<"z">>, isDir |-> FALSE],
     [name |-> Fill("z", MAX_PATH \div 2), isDir |-> TRUE]}

\* the characters of the C string stored in buf (the bytes before the
\* first terminator)
CStr(buf) ==
    IF \E i \in 1..Len(buf) : buf[i] = NUL
    THEN SubSeq(buf, 1, (CHOOSE i \in 1..Len(buf) :
                            buf[i] = NUL /\ \A j \in 1..(i - 1) : buf[j] # NUL) - 1)
    ELSE buf

\* the trees of the model: the two examples of the documentation (a file a
\* and a directory b holding a file c; a file x.txt and an empty directory
\* y), a directory the host refuses to open, and names that make paths of
\* UsedOffset characters, of more, and a name of MAX_PATH - 1 characters
Trees ==
    {[dirs |-> {<<<<"b">>>>},
      files |-> {<<<<"a">>>>, <<<<"b">>, <<"c">>>>},
      denied |-> {}],
     [dirs |-> {<<<<"y">>>>},
      files |-> {<<<<"x", ".", "t", "x", "t">>>>},
      denied |-> {}],
     [dirs |-> {<<<<"p">>>>},
      files |-> {<<<<"p">>, <<"q">>>>},
      denied |-> {<<<<"p">>>>}],
     [dirs |-> {<<Fill("d", 200)>>},
      files |-> {<<Fill("d", 200), Fill("f", 61)>>, <<Fill("d", 200), Fill("g", 100)>>},
      denied |-> {}],
     [dirs |-> {},
      files |-> {<<Fill("h", MAX_PATH - 1)>>},
      denied |-> {}]}

---------------------------------------------------------------------------
(* The arena-backed enumeration: main's third block and get_file_list_custom *)

\* sizeof(FileName): a size_t, a pointer and char name[1], padded
SizeofFileName == 3 * SizeofPtr

\* offsetof(FileName, name)
NameOffset == 2 * SizeofPtr

\* the push_path call that follows the push that gave prev, on the same
\* builder; it is not made when that push ended the process
PushNext(prev, str, ub) ==
    IF prev.status # "ok" THEN prev ELSE push_path(prev.pb, str, ub)

\* FindFirstFileExA(pattern.buffer, ...): the host opens the directory the
\* pattern names and lists it in an order of its choice, or fails and leaves
\* find_data unwritten; the result is not checked
HostAnswers(t, pat) ==
    IF \E d \in Resolve(t, pat) : d \notin t.denied
    THEN LET d == CHOOSE d \in Resolve(t, pat) : d \notin t.denied
         IN  {[ok |-> TRUE, dir |-> d, listing |-> o] : o \in Orders(Entries(t, d))}
    ELSE {[ok |-> FALSE, dir |-> <<>>, listing |-> <<g>>] : g \in StaleFindData}

RECURSIVE Walk(_, _, _)
\* for (; strings->next; strings = strings->next) continue;
Walk(h, a, fuel) ==
    IF fuel = 0 \/ h[a].next = NULL THEN a
    ELSE Walk(h, h[a].next, fuel - 1)

\* a mutant of IsPseudo: only "." is skipped
IsPseudo_DotOnly(name) == name = Dot

\* !strcmp(cFileName, ".") / !strcmp(cFileName, "..")
IsPseudo(name) == name = Dot \/ name = DotDot

\* a mutant of LinkAtTail: the new node is also made to point back at strings
LinkAtTail_Cycle(h, strings, file) ==
    LET tail == Walk(h, strings, Cardinality(DOMAIN h))
    IN  [tail |-> tail, hang |-> h[tail].next # NULL,
         heap |-> [h EXCEPT ![tail].next = file, ![file].next = strings]]

\* the tail walk and `strings->next = file`.  A walk that has not met a NULL
\* next after as many steps as there are nodes is on a cycle and never ends.
LinkAtTail(h, strings, file) ==
    LET tail == Walk(h, strings, Cardinality(DOMAIN h))
    IN  [tail |-> tail, hang |-> h[tail].next # NULL,
         heap |-> [h EXCEPT ![tail].next = file]]

\* The entry of get_file_list_custom(root, arena, strings) on top of the
\* activations below: the pattern is built, the host is asked for the first
\* entry, and the loop body is next.  oob: a push of the caller wrote past
\* its buffer; via: the entry the activation is entered for (history).
EnterDir(below, root, strings, ub, oob, via) ==
    \E pushed \in {push_path(EmptyBuilder, root, ub)} :
    \E pro \in {PushNext(pushed, MatchAll, ub)} :
        /\ enumOob' = (enumOob \/ oob \/ pushed.oob \/ pro.oob)
        /\ IF pro.status # "ok"
           THEN /\ enumPc' = pro.status
                /\ stack' = below
                /\ UNCHANGED <<orders, openFailed>>
           ELSE \E pat \in {CStr(pro.pb.buffer)} :
                \E ans \in HostAnswers(tree, pat) :
                  /\ enumPc' = "run"
                  /\ stack' = Append(below,
                        [root |-> root, pattern |-> pro.pb,
                         find_data |-> ans.listing[1],
                         rest |-> Tail(ans.listing), handleOk |-> ans.ok,
                         strings |-> strings, pc |-> "body", via |-> via])
                  /\ orders' = IF ans.ok THEN (ans.dir :> ans.listing) @@ orders
                               ELSE orders
                  /\ openFailed' = (openFailed \/ ~ans.ok)

\* reserve sizes of the arena handed to the enumeration: main's large
\* reservation (scaled to the word) and one that runs out
EnumReserveSizes == {8 * SizeofPtr, 2 ^ (WordBits - 1)}

InitEnum ==
    /\ variant \in {"cpp", "cc"}
    /\ \E reserve_size \in EnumReserveSizes, reserveOk \in BOOLEAN :
           /\ reserveOk => HostGrants(reserve_size)
           /\ arena = make(reserve_size, reserveOk)
    /\ last = NoCall
    /\ allocs = <<>>
    /\ PathIdle
    /\ tree \in Trees
    /\ stack = <<>>
    /\ heap = <<>>
    /\ first = NULL
    /\ enumPc = "start"
    /\ orders = <<>>
    /\ openFailed = FALSE
    /\ enumOob = FALSE
    /\ nullStore = FALSE

\* main: the sentinel node is allocated and written, then
\* get_file_list_custom(".", &arena, first) is entered
MainStart ==
    /\ enumPc = "start"
    /\ \E commitOk \in BOOLEAN, ub \in UbOutcomes :
         LET r == alloc(arena, SizeofFileName + 1, commitOk)
         IN  /\ arena' = r.arena
             /\ last' = CallRecord(r)
             /\ allocs' = IF r.outcome = "ok"
                          THEN Append(allocs, [mem |-> r.mem, size |-> r.aligned])
                          ELSE allocs
             /\ IF r.mem = NULL
                THEN \* first->length = 1 through a null pointer
                     /\ enumPc' = "crash"
                     /\ nullStore' = TRUE
                     /\ UNCHANGED <<stack, heap, first, orders, openFailed, enumOob>>
                ELSE /\ first' = r.mem
                     /\ heap' = (r.mem :> [length |-> 1, next |-> NULL,
                                           name |-> <<".", NUL>>,
                                           entry |-> [root |-> <<>>, name |-> <<>>],
                                           req |-> SizeofFileName + 1])
                     /\ EnterDir(<<>>, Dot, r.mem, ub, FALSE, <<>>)
                     /\ UNCHANGED nullStore
    /\ UNCHANGED <<variant, tree, pathVars>>

Top == stack[Len(stack)]

Below == SubSeq(stack, 1, Len(stack) - 1)

\* the loop body on a pseudo-entry: continue
BodySkip ==
    /\ enumPc = "run"
    /\ Top.pc = "body"
    /\ IsPseudo(Top.find_data.name)
    /\ stack' = Append(Below, [Top EXCEPT !.pc = "cond"])
    /\ UNCHANGED <<arenaVars, pathVars, tree, heap, first, enumPc, orders,
                   openFailed, enumOob, nullStore>>

\* the loop body on any other entry: the path is built, a node is allocated,
\* written and linked at the tail, and a directory is entered at once
BodyEntry ==
    /\ enumPc = "run"
    /\ Top.pc = "body"
    /\ ~IsPseudo(Top.find_data.name)
    /\ Top.find_data.isDir => Len(stack) < MaxDepth
    /\ \E ub \in UbOutcomes :
       \E pushed \in {push_path(reset_path(Top.pattern), Top.root, ub)} :
       \E joined \in {PushNext(pushed, Sep, ub)} :
       \E built \in {PushNext(joined, Top.find_data.name, ub)} :
       \E child \in {CStr(built.pb.buffer)} :
       \E commitOk \in BOOLEAN :
         LET f == Top
             builtOob == pushed.oob \/ joined.oob \/ built.oob
             size == (SizeofFileName + built.pb.used) % WordMod
             r == alloc(arena, size, commitOk)
             \* the bytes written through file: the header and used + 1 name bytes
             extent == (r.mem - arena.base) + NameOffset + built.pb.used + 1
             node == [length |-> built.pb.used, next |-> NULL,
                      name |-> SubSeq(built.pb.buffer, 1, built.pb.used + 1),
                      entry |-> [root |-> f.root, name |-> f.find_data.name],
                      req |-> size]
             linked == LinkAtTail((r.mem :> node) @@ heap, f.strings, r.mem)
             g == [f EXCEPT !.pattern = built.pb, !.strings = linked.tail,
                            !.pc = "cond"]
         IN  IF built.status # "ok" \/ built.pb.used >= BuilderMem
             THEN \* push_path ended the process, or used is a word of text
                  \* bytes and the copy of used + 1 bytes runs off the stack
                  /\ enumPc' = IF built.status # "ok" THEN built.status ELSE "crash"
                  /\ enumOob' = (enumOob \/ builtOob)
                  /\ UNCHANGED <<arenaVars, stack, heap, orders, openFailed,
                                 nullStore>>
             ELSE /\ arena' = r.arena
                  /\ last' = CallRecord(r)
                  /\ allocs' = IF r.outcome = "ok"
                               THEN Append(allocs, [mem |-> r.mem, size |-> r.aligned])
                               ELSE allocs
                  /\ UNCHANGED variant
                  /\ IF r.mem = NULL \/ (extent > r.arena.committed /\ ub = "crash")
                     THEN \* file->length = ... through a null pointer, or
                          \* into memory that was never committed
                          /\ enumPc' = "crash"
                          /\ enumOob' = (enumOob \/ builtOob)
                          /\ nullStore' = (nullStore \/ r.mem = NULL)
                          /\ UNCHANGED <<stack, heap, orders, openFailed>>
                     ELSE IF linked.hang
                     THEN \* the node is written, the tail walk never returns
                          /\ enumPc' = "hang"
                          /\ heap' = (r.mem :> node) @@ heap
                          /\ enumOob' = (enumOob \/ builtOob)
                          /\ UNCHANGED <<stack, orders, openFailed, nullStore>>
                     ELSE /\ heap' = linked.heap
                          /\ UNCHANGED nullStore
                          /\ IF f.find_data.isDir
                             THEN EnterDir(Append(Below, g), child,
                                           linked.tail, ub, builtOob,
                                           f.find_data.name)
                             ELSE /\ stack' = Append(Below, g)
                                  /\ enumOob' = (enumOob \/ builtOob)
                                  /\ UNCHANGED <<enumPc, orders, openFailed>>
    /\ UNCHANGED <<pathVars, tree, first>>

\* while (FindNextFileA(find_handle, &find_data)): one more entry
FindNextMore ==
    /\ enumPc = "run"
    /\ Top.pc = "cond"
    /\ Top.handleOk /\ Top.rest # <<>>
    /\ stack' = Append(Below, [Top EXCEPT !.find_data = Head(Top.rest),
                                          !.rest = Tail(Top.rest),
                                          !.pc = "body"])
    /\ UNCHANGED <<arenaVars, pathVars, tree, heap, first, enumPc, orders,
                   openFailed, enumOob, nullStore>>

\* FindNextFileA returns FALSE (no more entries, or an invalid handle): the
\* activation returns, and main goes on when it was the outermost one
FindNextDone ==
    /\ enumPc = "run"
    /\ Top.pc = "cond"
    /\ ~(Top.handleOk /\ Top.rest # <<>>)
    /\ stack' = Below
    /\ enumPc' = IF Len(stack) = 1 THEN "done" ELSE "run"
    /\ UNCHANGED <<arenaVars, pathVars, tree, heap, first, orders,
                   openFailed, enumOob, nullStore>>

NextEnum == MainStart \/ BodySkip \/ BodyEntry \/ FindNextMore \/ FindNextDone

SpecEnum == InitEnum /\ [][NextEnum]_vars

\* The program is one thread of synchronous calls, each of which returns:
\* while a step is possible, a step is taken.
SpecEnumLive == InitEnum /\ [][NextEnum]_vars /\ WF_vars(NextEnum)

---------------------------------------------------------------------------
(* Claims about the arena *)

\* the least multiple of g that is >= n, as a number (no machine word)
RoundUp(n, g) == ((n + g - 1) \div g) * g

\* C1: in every state reached by make and any sequence of alloc calls with
\* size > 0, used <= committed <= reserved.
C1_CommitInvariant ==
    arena.base # NULL =>
        /\ arena.used <= arena.committed
        /\ arena.committed <= arena.reserved

\* C3: the byte ranges [A, A + sa) and [B, B + sb) of any two successful
\* allocations of one arena, A made before B, are disjoint.
C3_NoOverlap ==
    arena.base # NULL =>
        \A i, j \in 1..Len(allocs) :
            i < j =>
                \/ allocs[i].mem + allocs[i].size <= allocs[j].mem
                \/ allocs[j].mem + allocs[j].size <= allocs[i].mem

\* C4: used never decreases, and every successful alloc returns base + u,
\* u the value of used before the call, and sets used to u + alignedSize
\* (alignedSize the aligned size alloc computed for the request).
C4_Monotone ==
    [][arena.base # NULL =>
           /\ arena'.used >= arena.used
           /\ last'.outcome = "ok" =>
                  /\ last'.mem = arena.base + arena.used
                  /\ arena'.used = arena.used + last'.aligned]_vars

\* C5: an alloc called with used >= reserved returns NULL
\* (OutOfReservedSpace), attempts no commit and leaves used and committed
\* as they were.
C5_Exhaustion ==
    [][arena.used >= arena.reserved =>
           /\ last'.outcome = "OutOfReservedSpace"
           /\ last'.mem = NULL
           /\ last'.commit = "none"
           /\ arena'.used = arena.used
           /\ arena'.committed = arena.committed]_vars

C5_Witness ==
    /\ last.outcome = "OutOfReservedSpace"
    /\ arena.used >= arena.reserved
    /\ arena.reserved > 0
    /\ Len(allocs) > 0

\* C6: with used < reserved, an alloc whose aligned size equals
\* reserved - used succeeds when the host commit does and leaves
\* used = reserved; the alloc call that follows it fails with
\* OutOfReservedSpace.
C6_ExactFit ==
    [][/\ (/\ arena.used < arena.reserved
           /\ RoundUp(last'.size, Granularity) = arena.reserved - arena.used
           /\ last'.commit # "failed")
          => (/\ last'.outcome = "ok"
              /\ last'.mem = arena.base + arena.used
              /\ arena'.used = arena.reserved)
       /\ (/\ last.outcome = "ok"
           /\ last.usedBefore + RoundUp(last.size, Granularity) = arena.reserved
           /\ arena.used = arena.reserved)
          => last'.outcome = "OutOfReservedSpace"]_vars

C6_Witness ==
    /\ last.outcome = "OutOfReservedSpace"
    /\ arena.used = arena.reserved
    /\ Len(allocs) >= 2
    /\ allocs[Len(allocs)].size > 0
    /\ allocs[Len(allocs)].mem + allocs[Len(allocs)].size
         = arena.base + arena.reserved

\* C10: with base a multiple of the alignment granularity G, used is a
\* multiple of G after any sequence of alloc calls, and so is every address
\* alloc returned.
C10_Aligned ==
    arena.base % Granularity = 0 =>
        /\ arena.used % Granularity = 0
        /\ \A i \in 1..Len(allocs) : allocs[i].mem % Granularity = 0

C10_Witness ==
    /\ Len(allocs) >= 2
    /\ last.outcome = "ok"
    /\ last.size % Granularity # 0
    /\ last.usedBefore > 0
    /\ arena.base # NULL

\* C11: when the host declines the reservation, the arena is unusable: no
\* alloc call made on it afterwards returns an address.
C11_ReservationFailed ==
    arena.base = NULL => last.mem = NULL

\* C12: a successful alloc of size > 0 computes as its aligned size the
\* least multiple of the granularity that is >= size, so the block it
\* returns holds at least size bytes.
C12_AlignedSize ==
    (arena.base # NULL /\ last.outcome = "ok") =>
        /\ last.aligned = RoundUp(last.size, Granularity)
        /\ last.aligned >= last.size

\* the committed size the commit step is to ask for, as numbers
CommitTarget(committed, alignedSize, reserved) ==
    LET sum == committed + MAX(RoundUp(alignedSize, PageSize),
                               CommitPages * PageSize)
    IN  IF sum > reserved THEN reserved ELSE sum

\* C13: an alloc that passed the test of used against reserved asks the
\* host for a commit if and only if used + alignedSize > committed; when the
\* commit succeeds, committed becomes min(committed + max(alignedSize
\* rounded up to a page, 100 pages), reserved); without a commit, committed
\* is unchanged.
C13_CommitStep ==
    [][(arena.base # NULL /\ arena.used < arena.reserved) =>
           /\ (last'.commit # "none")
                  <=> (arena.used + last'.aligned > arena.committed)
           /\ last'.commit = "ok" =>
                  arena'.committed
                      = CommitTarget(arena.committed, last'.aligned, arena.reserved)
           /\ last'.commit = "none" => arena'.committed = arena.committed]_vars

\* C14: when the commit alloc asks for fails, alloc returns NULL
\* (CommitFailed) and leaves used and committed, and the arena as a whole,
\* as they were before the call.
C14_CommitFailure ==
    [][last'.commit = "failed" =>
           /\ last'.outcome = "CommitFailed"
           /\ last'.mem = NULL
           /\ arena'.used = arena.used
           /\ arena'.committed = arena.committed
           /\ arena' = arena]_vars

C14_Witness ==
    /\ last.outcome = "CommitFailed"
    /\ arena.base # NULL
    /\ Len(allocs) >= 1
    /\ arena.used > 0
    /\ arena.committed > 0
    /\ arena.committed < arena.reserved

\* C19: no alloc call changes base or reserved, and committed never
\* decreases, so the addresses returned earlier stay inside the committed
\* prefix.
C19_Frame ==
    [][arena.base # NULL =>
           /\ arena'.base = arena.base
           /\ arena'.reserved = arena.reserved
           /\ arena'.committed >= arena.committed]_vars

---------------------------------------------------------------------------
(* Claims about the path builder *)

\* C2: a push that would make currentLength + length(text) + 1 >= 260 ends
\* in the fatal exit; no byte is ever written at or beyond buffer[260], so
\* used + 1 <= 260 in every state of a builder.
C2_NoOverflow ==
    /\ ~pbOob
    /\ pb.used + 1 <= MAX_PATH

\* C7: after a reset followed by pushes of t1..tn that did not end the
\* process, used is the sum of their lengths, buffer[0..used) is their
\* concatenation and buffer[used] is the terminator.
C7_RoundTrip ==
    (pbStatus = "ok" /\ pbPushes >= 1) =>
        /\ pb.used = Len(pbAppended)
        /\ pb.used < MAX_PATH
        /\ SubSeq(pb.buffer, 1, pb.used) = pbAppended
        /\ pb.buffer[pb.used + 1] = NUL

---------------------------------------------------------------------------
(* Claims about the enumeration *)

RECURSIVE ListFrom(_, _, _)
\* the names stored in the nodes of the list, in link order from node a
ListFrom(h, a, fuel) ==
    IF a = NULL \/ fuel = 0 THEN <<>>
    ELSE <<h[a].name>> \o ListFrom(h, h[a].next, fuel - 1)

RECURSIVE PreOrder(_, _)
\* the paths of the entries of directory d from the i-th on, in pre-order,
\* following the orders in which the host listed the directories
PreOrder(d, i) ==
    IF d \notin DOMAIN orders \/ i > Len(orders[d]) THEN <<>>
    ELSE LET e == orders[d][i]
         IN  (IF e.name \in {Dot, DotDot} THEN <<>>
              ELSE <<JoinPath(DirString(d), e.name) \o <<NUL>>>>
                   \o (IF e.isDir THEN PreOrder(Append(d, e.name), 1) ELSE <<>>))
             \o PreOrder(d, i + 1)

\* C8: for any tree and any host order, the list the enumeration produces
\* is the sentinel followed by one node per non-pseudo entry in pre-order,
\* each holding root + separator + name (every directory could be opened).
C8_PreOrder ==
    (enumPc = "done" /\ ~openFailed) =>
        ListFrom(heap, first, Cardinality(DOMAIN heap))
            = <<Dot \o <<NUL>>>> \o PreOrder(<<>>, 1)

\* the nodes linked into the list that starts at the sentinel
RECURSIVE Linked(_, _, _)
Linked(h, a, fuel) ==
    IF a = NULL \/ fuel = 0 THEN {}
    ELSE {a} \cup Linked(h, h[a].next, fuel - 1)

\* C9 (state part): no node is made for an entry named "." or "..", no
\* activation is entered for one, and when the enumeration is done every
\* other entry the host listed, wherever the pseudo-entries stood in the
\* listing, has its node in the list.
C9_NoPseudoNode ==
    /\ \A a \in DOMAIN heap :
           a # first => heap[a].entry.name \notin {Dot, DotDot}
    /\ \A i \in 1..Len(stack) : stack[i].via \notin {Dot, DotDot}
    /\ enumPc = "done" =>
           \A d \in DOMAIN orders : \A i \in 1..Len(orders[d]) :
               orders[d][i].name \notin {Dot, DotDot} =>
                   \E a \in Linked(heap, first, Cardinality(DOMAIN heap)) :
                       heap[a].entry = [root |-> DirString(d),
                                        name |-> orders[d][i].name]

\* C9: for any host order and any position of "." and ".." in it, the
\* enumeration never appends a node for a pseudo-entry and never recurses
\* into one, and the loop body on a pseudo-entry changes nothing but the
\* position in the loop: the entries that follow are still asked for.
C9_PseudoSkipped ==
    /\ []C9_NoPseudoNode
    /\ [][(/\ enumPc = "run"
           /\ Top.pc = "body"
           /\ Top.find_data.name \in {Dot, DotDot})
          => (/\ heap' = heap
              /\ arena' = arena
              /\ enumPc' = "run"
              /\ stack' = Append(Below, [Top EXCEPT !.pc = "cond"]))]_vars

C9_Witness ==
    /\ enumPc = "done"
    /\ \E d \in DOMAIN orders : \E i, j \in 1..Len(orders[d]) :
           /\ 1 < i /\ i < j
           /\ orders[d][i].name = DotDot
           /\ orders[d][j].name \notin {Dot, DotDot}
           /\ orders[d][1].name \notin {Dot, DotDot}
           /\ \E a \in Linked(heap, first, Cardinality(DOMAIN heap)) :
                  heap[a].entry = [root |-> DirString(d), name |-> orders[d][j].name]

\* C15: when alloc returns NULL (OutOfReservedSpace or CommitFailed) inside
\* get_file_list_custom, nothing is stored through the result: the
\* enumeration fails without writing length, next or name and without
\* linking a node.
C15_AllocFailureStops ==
    (/\ stack # <<>>
     /\ last.outcome \in {"OutOfReservedSpace", "CommitFailed"})
    => ~nullStore

\* C16: every node, the sentinel included, has length = the length of the
\* path built for it, a name of exactly length + 1 bytes (the path and the
\* terminator) placed right after the header fields, and those bytes end
\* inside the block of the size asked of alloc.
C16_NodeLayout ==
    \A a \in DOMAIN heap :
        LET n == heap[a]
            path == IF a = first THEN Dot
                    ELSE JoinPath(n.entry.root, n.entry.name)
        IN  /\ n.length = Len(path)
            /\ Len(n.name) = n.length + 1
            /\ n.name = path \o <<NUL>>
            /\ NameOffset + n.length + 1 <= n.req

\* C17: when the host fails to open a directory, no node is appended and no
\* activation is entered on behalf of that directory.
C17_OpenFailureSkips ==
    \A d \in tree.denied :
        /\ \A a \in DOMAIN heap : heap[a].entry.root # DirString(d)
        /\ \A i \in 1..Len(stack) :
               stack[i].root # JoinPath(DirString(d), stack[i].via)

RECURSIVE ChainEnds(_, _, _)
\* the links from node a lead to a node with no next link
ChainEnds(h, a, fuel) ==
    IF a = NULL THEN TRUE
    ELSE IF fuel = 0 \/ a \notin DOMAIN h THEN FALSE
    ELSE ChainEnds(h, h[a].next, fuel - 1)

\* the list is an acyclic chain that ends in a node with no next link
C18_Acyclic ==
    first # NULL => ChainEnds(heap, first, Cardinality(DOMAIN heap))

\* the enumeration has run to completion or ended in a fatal failure
C18_Finished == enumPc \in {"done", "exit", "crash"}

\* C18: for every tree and host order of the model, the enumeration
\* eventually finishes, by completion or by a fatal failure, and the list
\* its tail walks follow stays an acyclic chain ending in a node with no
\* next link.
C18_Terminates ==
    /\ []C18_Acyclic
    /\ <>C18_Finished

C18_Witness ==
    /\ enumPc = "done"
    /\ ~enumOob
    /\ Cardinality(DOMAIN heap) >= 4
    /\ \E a \in DOMAIN heap : a # first /\ heap[a].entry.root # Dot
    /\ Walk(heap, first, Cardinality(DOMAIN heap)) # first

=============================================================================
